---- MODULE Spec2Model ----
(***************************************************************************)
(* Model of the step interpreter and execution engine of                   *)
(* project_generator (extract_steps2.py): final_command parses a document  *)
(* into steps and fenced blocks, run_commands walks them, run_command      *)
(* supervises one child shell process together with its keystroke          *)
(* listener thread (check_for_stop / get_key).                             *)
(*                                                                         *)
(* Python strings are TLA+ strings, handled character by character with    *)
(* Len, SubSeq and \o.  The regular expressions of the source are          *)
(* evaluated as the re module evaluates them (leftmost match, lazy and     *)
(* greedy quantifiers, lookahead, $ before a final newline).               *)
(*                                                                         *)
(* The TLA+ lexer does not accept a backtick inside a string, so the fence *)
(* character of the documents is written BT ("~") in every model string.   *)
(* Documents use the characters space, tab and newline as whitespace and   *)
(* newline as the only line break.                                         *)
(***************************************************************************)
EXTENDS Integers, Sequences, FiniteSets, TLC

\* ------------------------------------------------------------------------
\* Characters and string helpers (Python str methods used by the source)
\* ------------------------------------------------------------------------

BT == "~"

Fence == BT \o BT \o BT

NL == "\n"

LowerLetters == "abcdefghijklmnopqrstuvwxyz"

UpperLetters == "ABCDEFGHIJKLMNOPQRSTUVWXYZ"

DigitChars == "0123456789"

\* s[p] as a one-character string; "" outside the string
At(s, p) == IF p >= 1 /\ p <= Len(s) THEN SubSeq(s, p, p) ELSE ""

CharsOf(s) == {SubSeq(s, p, p) : p \in 1..Len(s)}

IsSpace(c) == c \in {" ", "\t", "\n"}

IsDigit(c) == c \in CharsOf(DigitChars)

\* \w of the re module, on ASCII
IsWord(c) == c \in CharsOf(LowerLetters) \cup CharsOf(UpperLetters) \cup CharsOf(DigitChars) \cup {"_"}

\* s.startswith(lit, p - 1), with p counted from 1
StartsAt(s, p, lit) == p >= 1 /\ p + Len(lit) - 1 <= Len(s) /\ SubSeq(s, p, p + Len(lit) - 1) = lit

\* lit in s
Contains(s, lit) == \E p \in 1..(Len(s) + 1) : StartsAt(s, p, lit)

LowerChar(c) ==
    IF c \in CharsOf(UpperLetters)
    THEN LET p == CHOOSE q \in 1..Len(UpperLetters) : SubSeq(UpperLetters, q, q) = c
         IN  SubSeq(LowerLetters, p, p)
    ELSE c

RECURSIVE Lower(_)
\* s.lower()
Lower(s) == IF s = "" THEN "" ELSE LowerChar(SubSeq(s, 1, 1)) \o Lower(SubSeq(s, 2, Len(s)))

\* s.strip()
Strip(s) ==
    LET keep == {p \in 1..Len(s) : ~IsSpace(At(s, p))}
    IN  IF keep = {} THEN ""
        ELSE SubSeq(s, CHOOSE p \in keep : \A q \in keep : p <= q,
                       CHOOSE p \in keep : \A q \in keep : p >= q)

\* smallest member of a non-empty set of positions
MinOf(S) == CHOOSE p \in S : \A q \in S : p <= q

MaxOf(S) == CHOOSE p \in S : \A q \in S : p >= q

RECURSIVE SplitFrom(_, _)
\* s.splitlines() of the text from position p on: a final line break ends
\* the last line and opens no further one
SplitFrom(s, p) ==
    IF p > Len(s) THEN << >>
    ELSE LET brk == {q \in p..Len(s) : At(s, q) = NL}
         IN  IF brk = {} THEN <<SubSeq(s, p, Len(s))>>
             ELSE <<SubSeq(s, p, MinOf(brk) - 1)>> \o SplitFrom(s, MinOf(brk) + 1)

splitlines(s) == SplitFrom(s, 1)

RECURSIVE JoinLines(_)
\* '\n'.join(lines)
JoinLines(lines) ==
    IF lines = << >> THEN ""
    ELSE IF Len(lines) = 1 THEN lines[1]
    ELSE lines[1] \o NL \o JoinLines(Tail(lines))

RECURSIVE Replace(_, _)
\* s.replace(old, ''), old non-empty
Replace(s, old) ==
    IF s = "" THEN ""
    ELSE IF StartsAt(s, 1, old) THEN Replace(SubSeq(s, Len(old) + 1, Len(s)), old)
    ELSE SubSeq(s, 1, 1) \o Replace(SubSeq(s, 2, Len(s)), old)

RECURSIVE IntToStr(_)
\* str(n) for n >= 0, as the f-strings format the step number
IntToStr(n) ==
    IF n < 10 THEN SubSeq(DigitChars, n + 1, n + 1)
    ELSE IntToStr(n \div 10) \o SubSeq(DigitChars, (n % 10) + 1, (n % 10) + 1)

\* the position where the regex $ matches: the end of the string, or just
\* before a newline that ends the string
AtDollar(s, e) == e = Len(s) + 1 \/ (e = Len(s) /\ At(s, e) = NL)

\* os.path.join(a, b) on POSIX: an absolute b replaces a
PathJoin(a, b) ==
    IF StartsAt(b, 1, "/") THEN b
    ELSE IF a = "" \/ At(a, Len(a)) = "/" THEN a \o b
    ELSE a \o "/" \o b

\* ------------------------------------------------------------------------
\* extract_steptitles: re.findall of
\*   (\*\*Step \d+: .+?\*\*)\n(.*?)(?=\n\*\*Step \d+:|$)   with re.DOTALL
\* ------------------------------------------------------------------------

\* the position after the longest run of word characters that starts at p
WordsEnd(s, p) == MinOf({q \in p..(Len(s) + 1) : ~IsWord(At(s, q))})

\* the position after the longest run of digits that starts at p
DigitsEnd(s, p) == MinOf({q \in p..(Len(s) + 1) : ~IsDigit(At(s, q))})

\* \*\*Step \d+:  matched at p, followed by `tail`: the position after it,
\* or 0 when it does not match
MarkerHead(s, p, tail) ==
    IF StartsAt(s, p, "**Step ")
       /\ DigitsEnd(s, p + 7) > p + 7
       /\ StartsAt(s, DigitsEnd(s, p + 7), ":" \o tail)
    THEN DigitsEnd(s, p + 7) + 1 + Len(tail)
    ELSE 0

\* .+?\*\*\n after the marker head that ends before h: the position of the
\* closing ** (the first ** that a newline follows, at least one character
\* after h), or 0
TitleClose(s, h) ==
    LET qs == {q \in (h + 1)..Len(s) : StartsAt(s, q, "**" \o NL)}
    IN  IF qs = {} THEN 0 ELSE MinOf(qs)

\* (?=\n\*\*Step \d+:|$) at e
BodyStop(s, e) == (At(s, e) = NL /\ MarkerHead(s, e + 1, "") # 0) \/ AtDollar(s, e)

\* (.*?) from b: lazy, so the first position where the lookahead holds
BodyEnd(s, b) == MinOf({e \in b..(Len(s) + 1) : BodyStop(s, e)})

\* whether the whole pattern matches with its first character at p
StepMatchAt(s, p) == MarkerHead(s, p, " ") # 0 /\ TitleClose(s, MarkerHead(s, p, " ")) # 0

RECURSIVE StepMatchesFrom(_, _)
\* the matches of findall from position pos on, as <<group 1, group 2>>
StepMatchesFrom(s, pos) ==
    LET ps == {p \in pos..Len(s) : StepMatchAt(s, p)}
    IN  IF ps = {} THEN << >>
        ELSE LET p == MinOf(ps)
                 q == TitleClose(s, MarkerHead(s, p, " "))
                 e == BodyEnd(s, q + 3)
             IN  <<<<SubSeq(s, p, q + 1), SubSeq(s, q + 3, e - 1)>>>> \o StepMatchesFrom(s, e)

\* (step_titles, step_details), each entry stripped
extract_steptitles(text) ==
    LET matches == StepMatchesFrom(text, 1)
    IN  [step_titles |-> [n \in 1..Len(matches) |-> Strip(matches[n][1])],
         step_details |-> [n \in 1..Len(matches) |-> Strip(matches[n][2])]]

\* ------------------------------------------------------------------------
\* extract_code_snippets: re.findall of `{3}(.*?)`{3} with re.DOTALL
\* ------------------------------------------------------------------------

RECURSIVE SnippetsFrom(_, _)
SnippetsFrom(s, pos) ==
    LET opens == {p \in pos..Len(s) : StartsAt(s, p, Fence)}
    IN  IF opens = {} THEN << >>
        ELSE LET p == MinOf(opens)
                 closes == {q \in (p + 3)..Len(s) : StartsAt(s, q, Fence)}
             IN  IF closes = {} THEN << >>
                 ELSE <<SubSeq(s, p + 3, MinOf(closes) - 1)>> \o SnippetsFrom(s, MinOf(closes) + 3)

extract_code_snippets(step_details) ==
    [n \in 1..Len(step_details) |-> SnippetsFrom(step_details[n], 1)]

\* ------------------------------------------------------------------------
\* extract_filename: re.search of
\*   \b([\w\-/]+\/[\w\-]+\.\w+|[\w\-]+\.\w+)\b
\* ------------------------------------------------------------------------

IsNameChar(c) == IsWord(c) \/ c = "-"

IsPathChar(c) == IsNameChar(c) \/ c = "/"

\* \b between s[p-1] and s[p]
Boundary(s, p) == IsWord(At(s, p - 1)) # IsWord(At(s, p))

\* the last position of the longest run of \w, [\w\-], [\w\-/] from p
\* (p - 1 when the run is empty)
WordRunEnd(s, p) == MinOf({q \in p..(Len(s) + 1) : ~IsWord(At(s, q))}) - 1

NameRunEnd(s, p) == MinOf({q \in p..(Len(s) + 1) : ~IsNameChar(At(s, q))}) - 1

PathRunEnd(s, p) == MinOf({q \in p..(Len(s) + 1) : ~IsPathChar(At(s, q))}) - 1

\* [\w\-/]+\/[\w\-]+\.\w+ from p: the greedy run backs off to its last
\* slash, the name after it must reach a dot, the extension is a full run
\* of \w.  The last position of the match, or 0.
PathAltEnd(s, p) ==
    LET r == PathRunEnd(s, p)
        slashes == {t \in (p + 1)..(r - 1) : At(s, t) = "/"}
    IN  IF r >= p /\ At(s, r + 1) = "." /\ slashes # {}
           /\ NameRunEnd(s, MaxOf(slashes) + 1) = r
           /\ WordRunEnd(s, r + 2) >= r + 2
        THEN WordRunEnd(s, r + 2)
        ELSE 0

\* [\w\-]+\.\w+ from p: the last position of the match, or 0
NameAltEnd(s, p) ==
    LET r == NameRunEnd(s, p)
    IN  IF r >= p /\ At(s, r + 1) = "." /\ WordRunEnd(s, r + 2) >= r + 2
        THEN WordRunEnd(s, r + 2)
        ELSE 0

FilenameMatchAt(s, p) == Boundary(s, p) /\ (PathAltEnd(s, p) # 0 \/ NameAltEnd(s, p) # 0)

\* match.group(1) of the leftmost match (the first alternative first), or
\* "" for None: a match is never empty and the caller tests `if filename`
extract_filename(text) ==
    LET ps == {p \in 1..Len(text) : FilenameMatchAt(text, p)}
    IN  IF ps = {} THEN ""
        ELSE LET p == MinOf(ps)
             IN  SubSeq(text, p, IF PathAltEnd(text, p) # 0 THEN PathAltEnd(text, p)
                                 ELSE NameAltEnd(text, p))

\* ------------------------------------------------------------------------
\* extract_bash_commands: re.findall of bash\n([\s\S]+?)(?=\n\s*\n|$)
\* ------------------------------------------------------------------------

\* (?=\n\s*\n|$) at e
RegionStop(s, e) ==
    \/ /\ At(s, e) = NL
       /\ \E k \in (e + 1)..Len(s) :
              At(s, k) = NL /\ \A m \in (e + 1)..(k - 1) : IsSpace(At(s, m))
    \/ AtDollar(s, e)

RECURSIVE BashRegionsFrom(_, _)
\* the groups of findall from pos on: each starts after a literal "bash\n",
\* holds at least one character and is as short as the lookahead allows
BashRegionsFrom(s, pos) ==
    LET ps == {p \in pos..Len(s) : StartsAt(s, p, "bash" \o NL) /\ p + 5 <= Len(s)}
    IN  IF ps = {} THEN << >>
        ELSE LET g == MinOf(ps) + 5
                 e == MinOf({e \in (g + 1)..(Len(s) + 1) : RegionStop(s, e)})
             IN  <<SubSeq(s, g, e - 1)>> \o BashRegionsFrom(s, e)

\* [cmd.strip() for cmd in match.splitlines() if cmd.strip()]
StrippedLines(lines) ==
    LET stripped == [n \in 1..Len(lines) |-> Strip(lines[n])]
    IN  SelectSeq(stripped, LAMBDA l : l # "")

RECURSIVE FlattenLines(_)
FlattenLines(regions) ==
    IF regions = << >> THEN << >>
    ELSE StrippedLines(splitlines(Head(regions))) \o FlattenLines(Tail(regions))

extract_bash_commands(text) == FlattenLines(BashRegionsFrom(text, 1))

\* ------------------------------------------------------------------------
\* delete_first_line: (text without its first line, that line or None)
\* ------------------------------------------------------------------------

\* the first line is read but left in the text
keep_first_line(text) ==
    LET lines == splitlines(text)
    IN  IF lines = << >>
        THEN [content |-> "", line |-> "", isNone |-> TRUE]
        ELSE [content |-> JoinLines(lines), line |-> Head(lines), isNone |-> FALSE]

delete_first_line(text) ==
    LET lines == splitlines(text)
    IN  IF lines = << >>
        THEN [content |-> "", line |-> "", isNone |-> TRUE]
        ELSE [content |-> JoinLines(Tail(lines)), line |-> Head(lines), isNone |-> FALSE]

\* ------------------------------------------------------------------------
\* Bounds and inputs
\* ------------------------------------------------------------------------

\* steps per executed document
MaxSteps == 2

\* lines per document of the parser's input family
MaxLines == 3

\* keystrokes the operator types during one attended run
MaxKeys == 2

\* Path.cwd() when the host process starts
StartDir == "/w"

\* what a child may have written to its standard error
StderrText == "ls: cannot access"

\* str(e) of an exception caught in run_command
ExceptionText == "codec can't decode"

\* the keys the operator presses: the cancel key and any other key
Keys == {"n", "x"}

\* the marker line of step n
Marker(n, title) == "**Step " \o IntToStr(n) \o ": " \o title \o "**"

\* a step that creates and enters the project root
RootStep == [title |-> "bash commands", block |-> "bash\nmkdir demo\ncd demo\n"]

\* a step that writes a file
WriteStep == [title |-> "write hello.py", block |-> "python\nprint('hi')\n"]

\* a step of two commands that are both run when no root name is known
TwoCommandStep == [title |-> "bash commands", block |-> "bash\nmkdir demo/src\nls\n"]

\* the steps a generated plan ends with: a title and the text between the
\* fences of its one block
StepKinds ==
    { RootStep, WriteStep, TwoCommandStep,
      [title |-> "bash commands",       block |-> "bash\ncd demo\nls\n"],
      [title |-> "bash commands",       block |-> "bash\nls && cd demo\nmkdir lib\n"],
      [title |-> "bash commands",       block |-> "\nls\n"],
      [title |-> "Bash setup",          block |-> "sh\nls\n"],
      [title |-> "install",             block |-> "bash\npython app.py\n"],
      [title |-> "copy a.txt to b.txt", block |-> "text\nhello\n"],
      [title |-> "notes",               block |-> "text\nhello\n"] }

\* the steps that may come before the last one
LeadKinds == {RootStep, WriteStep}

StepText(n, kind) == Marker(n, kind.title) \o NL \o Fence \o kind.block \o Fence \o NL

RECURSIVE PlanText(_, _)
\* the document of a sequence of step kinds, numbered from n
PlanText(kinds, n) ==
    IF kinds = << >> THEN ""
    ELSE StepText(n, Head(kinds)) \o PlanText(Tail(kinds), n + 1)

\* the plans that are executed: up to MaxSteps steps, any kind of step last
Plans ==
    UNION {{lead \o <<last>> : lead \in [1..(m - 1) -> LeadKinds], last \in StepKinds} :
           m \in 1..MaxSteps}

RunDocs == {PlanText(kinds, 1) : kinds \in Plans}

\* the documents that are run with an operator at the keyboard
KeyDocs == {PlanText(<<TwoCommandStep>>, 1)}

\* the parser's input family: every document of up to MaxLines lines, each
\* a step marker, a line of prose, an empty line or a bold line that is not
\* a marker because no number follows "Step", with or without a final
\* newline; the markers are numbered in order
LineKinds == {"marker", "prose", "blank", "bold"}

MarkersBefore(shape, n) == Cardinality({m \in 1..(n - 1) : shape[m] = "marker"})

LineText(shape, n) ==
    IF shape[n] = "marker" THEN Marker(MarkersBefore(shape, n) + 1, "title")
    ELSE IF shape[n] = "prose" THEN "some text"
    ELSE IF shape[n] = "bold" THEN "**Step one: title**"
    ELSE ""

ShapeText(shape) == JoinLines([n \in 1..Len(shape) |-> LineText(shape, n)])

LineDocs ==
    LET shapes == UNION {[1..m -> LineKinds] : m \in 1..MaxLines}
    IN  {ShapeText(sh) : sh \in shapes} \cup {ShapeText(sh) \o NL : sh \in shapes}

Documents == RunDocs \cup LineDocs

\* how many documents the main loop hands to final_command
MaxRuns == 2

\* the root names a caller of run_commands seeds it with
Seeds == {<<"demo">>}

\* ------------------------------------------------------------------------
\* State
\* ------------------------------------------------------------------------

VARIABLES
    text,                    \* the document handed to final_command
    seed,                    \* the root name the caller passes to run_commands
    begun,                   \* history: the directory each run started in
    pc,                      \* where the runner thread stands
    step_titles,             \* extract_steptitles' first result
    step_details,            \* extract_steptitles' second result
    code_snippets,           \* extract_code_snippets' result
    i,                       \* run_commands' step index, counted from 0
    j,                       \* the block of step i the runner is at, from 1
    commands,                \* the commands of the current command block
    k,                       \* the command the runner is at, from 1
    current_directory,       \* run_commands' tracked directory
    created_directory_name,  \* << >> for None, <<name>> once known
    x,                       \* run_commands' flag x
    errors,                  \* run_commands' error log
    hostCwd,                 \* the working directory of the host process
    procs,                   \* the child processes, in spawn order
    listeners,               \* the check_for_stop threads, one per child
    stdin,                   \* keys typed and not yet read
    term,                    \* the terminal attributes: "cooked" or "raw"
    keysLeft,                \* how many keys the operator will still type
    effects,                 \* history: directory changes, spawns, writes
    classified,              \* history: how each block was classified
    results                  \* history: what each run_command call returned

vars == <<text, seed, begun, pc, step_titles, step_details, code_snippets, i, j, commands, k,
          current_directory, created_directory_name, x, errors, hostCwd,
          procs, listeners, stdin, term, keysLeft, effects, classified,
          results>>

runnerVars == <<step_titles, step_details, code_snippets, i, j, commands, k,
                current_directory, created_directory_name, x, errors>>

NoKey == [ch |-> "", during |-> 0]

\* nothing has run yet
Fresh ==
    /\ begun = << >>
    /\ pc = "init"
    /\ step_titles = << >>
    /\ step_details = << >>
    /\ code_snippets = << >>
    /\ i = 0
    /\ j = 1
    /\ commands = << >>
    /\ k = 1
    /\ current_directory = ""
    /\ created_directory_name = << >>
    /\ x = 0
    /\ errors = ""
    /\ hostCwd = StartDir
    /\ procs = << >>
    /\ listeners = << >>
    /\ stdin = << >>
    /\ term = "cooked"
    /\ effects = << >>
    /\ classified = << >>
    /\ results = << >>

Init ==
    /\ \/ text \in Documents /\ keysLeft = 0 /\ seed = << >>
       \/ text \in KeyDocs /\ keysLeft = MaxKeys /\ seed = << >>
       \/ text \in RunDocs /\ keysLeft = 0 /\ seed \in Seeds
    /\ Fresh

\* ------------------------------------------------------------------------
\* Helpers of run_commands and run_command
\* ------------------------------------------------------------------------

\* the entry tagged with the loop index itself
ErrorEntryZeroBased(step, error) == "Error in step " \o IntToStr(step) \o ": " \o error \o NL

\* f"Error in step {i+1}: {error}\n"
ErrorEntry(step, error) == "Error in step " \o IntToStr(step + 1) \o ": " \o error \o NL

\* `if error: errors += ...`
WithError(log, step, error) == IF error # "" THEN log \o ErrorEntry(step, error) ELSE log

\* the entry of a failed write tagged with the loop index itself
WriteErrorEntryZeroBased(step, filename) ==
    "Error in step " \o IntToStr(step) \o ": Failed to create file " \o filename \o NL

\* f"Error in step {i+1}: Failed to create file {filename}\n"
WriteErrorEntry(step, filename) ==
    "Error in step " \o IntToStr(step + 1) \o ": Failed to create file " \o filename \o NL

\* `keyword and ('bash' in step_title.lower() or 'bash' in keyword.lower())`
IsCommandBlock(step_title, keyword) ==
    /\ ~keyword.isNone
    /\ keyword.line # ""
    /\ (Contains(Lower(step_title), "bash") \/ Contains(Lower(keyword.line), "bash"))

\* only an absolute target is taken for a directory change
IsChangeDirectoryAbsolute(command) == StartsAt(command, 1, "cd /")

\* command.startswith('cd ')
IsChangeDirectory(command) == StartsAt(command, 1, "cd ")

\* new_dir = command[2:].strip(); os.path.join(current_directory, new_dir)
ChangedDirectory(directory, command) ==
    PathJoin(directory, Strip(SubSeq(command, 3, Len(command))))

\* the host stays where it was
ChdirIgnored(path, cwd) == cwd

\* os.chdir(path) in a process whose working directory is cwd: the new
\* working directory
Chdir(path, cwd) == path

\* only the command that creates or enters exactly the root is skipped
IsSkippedWhenExact(command, name) ==
    name # << >> /\ (command = "mkdir " \o name[1] \/ command = "cd " \o name[1])

\* the two `continue` guards
IsSkipped(command, name) ==
    \/ Contains(command, "mkdir") /\ name # << >> /\ Contains(command, name[1])
    \/ Contains(command, "cd") /\ name # << >> /\ Contains(command, name[1])

\* the root name is inferred whether or not one is known
NameAlwaysInferred(name, flag, cmds) ==
    IF flag = 0 THEN <<Strip(Replace(cmds[1], "mkdir"))>> ELSE name

\* the root name is the whole first command
NameIsFirstCommand(name, flag, cmds) ==
    IF flag = 0 /\ name = << >> THEN <<Strip(cmds[1])>> ELSE name

\* the last statement of the command loop: the root name is taken from
\* commands[0] the first time the statement is reached with no name known
NameAfter(name, flag, cmds) ==
    IF flag = 0 /\ name = << >> THEN <<Strip(Replace(cmds[1], "mkdir"))>> ELSE name

FlagAfter(name, flag) == IF flag = 0 /\ name = << >> THEN 1 ELSE flag

\* the stderr of a command the operator cancelled is dropped
StderrUnlessCancelled(proc) == IF proc.signalled THEN "" ELSE proc.stderr

\* `stderr = stderr if stderr else ""` and `return stderr, output`
CapturedStderr(proc) == proc.stderr

Effect(kind, txt, data, before, after, cwd, ok) ==
    [kind |-> kind, step |-> i + 1, block |-> j, index |-> k, text |-> txt,
     data |-> data, before |-> before, after |-> after, cwd |-> cwd, ok |-> ok]

Result(command, proc, how, captured, error, answer) ==
    [step |-> i + 1, command |-> command, proc |-> proc, how |-> how,
     captured |-> captured, error |-> error, answer |-> answer,
     cancelled |-> (proc # 0 /\ procs[proc].signalled)]

\* what the operator may type at the confirmation prompt
Answers == {"y", "Y ", "n", "yes"}

\* every answer but a plain n lets the command run
ask_permission_unless_n(response) == Lower(Strip(response)) # "n"

\* ask_permission: input(...).strip().lower() == 'y'
ask_permission(response) == Lower(Strip(response)) = "y"

\* `'python' in command`
NeedsPermission(command) == Contains(command, "python")

\* the child process of the command that run_command is supervising
cur == Len(procs)

\* ------------------------------------------------------------------------
\* The runner thread: final_command and run_commands
\* ------------------------------------------------------------------------

step_title == step_titles[i + 1]

code_snippet == code_snippets[i + 1][j]

\* the commands of the block taken from its last to its first
commandFromEnd == commands[Len(commands) + 1 - k]

command == commands[k]

\* run_commands up to its first iteration, on the lists parsed from the
\* document and with the root name `name`
Begin(name) ==
    /\ pc = "init"
    /\ LET parsed == extract_steptitles(text)
       IN  /\ step_titles' = parsed.step_titles
           /\ step_details' = parsed.step_details
           /\ code_snippets' = extract_code_snippets(parsed.step_details)
    /\ current_directory' = hostCwd
    /\ begun' = Append(begun, hostCwd)
    /\ errors' = ""
    /\ x' = 0
    /\ created_directory_name' = name
    /\ i' = 0
    /\ j' = 1
    /\ pc' = "block"
    /\ UNCHANGED <<text, seed, commands, k, hostCwd, procs, listeners, stdin, term,
                   keysLeft, effects, classified, results>>

\* final_command up to the first iteration of run_commands: the root name
\* it passes is None
FinalCommand == seed = << >> /\ Begin(<< >>)

\* a caller that parsed the document itself calls run_commands with the
\* root name of an earlier run
RunCommandsSeeded == seed # << >> /\ Begin(seed)

\* the blocks of step i are exhausted: the outer loop takes the next step
NextStep ==
    /\ pc = "block"
    /\ i < Len(step_titles)
    /\ j > Len(code_snippets[i + 1])
    /\ i' = i + 1
    /\ j' = 1
    /\ UNCHANGED <<text, seed, begun, pc, step_titles, step_details, code_snippets, commands, k,
                   current_directory, created_directory_name, x, errors, hostCwd,
                   procs, listeners, stdin, term, keysLeft, effects,
                   classified, results>>

\* run_commands returning only once every listener thread has ended, as if
\* the threads were joined
ReturnErrorsOnceJoined ==
    /\ pc = "block"
    /\ i = Len(step_titles)
    /\ \A l \in DOMAIN listeners : listeners[l].pc = "done"
    /\ pc' = "done"
    /\ UNCHANGED <<text, seed, begun, runnerVars, hostCwd, procs, listeners, stdin, term,
                   keysLeft, effects, classified, results>>

\* `return errors, created_directory_name`, and final_command returns errors
ReturnErrors ==
    /\ pc = "block"
    /\ i = Len(step_titles)
    /\ pc' = "done"
    /\ UNCHANGED <<text, seed, begun, runnerVars, hostCwd, procs, listeners, stdin, term,
                   keysLeft, effects, classified, results>>

AtBlock == pc = "block" /\ i < Len(step_titles) /\ j <= Len(code_snippets[i + 1])

Classified(kind, keyword) ==
    [step |-> i + 1, block |-> j, title |-> step_title, snippet |-> code_snippet,
     keyword |-> keyword, kind |-> kind]

\* the `if` branch: the block's commands are extracted
CommandBlock ==
    /\ AtBlock
    /\ IsCommandBlock(step_title, delete_first_line(code_snippet))
    /\ commands' = extract_bash_commands(code_snippet)
    /\ k' = 1
    /\ pc' = "cmd"
    /\ classified' = Append(classified, Classified("command", delete_first_line(code_snippet)))
    /\ UNCHANGED <<text, seed, begun, step_titles, step_details, code_snippets, i, j, current_directory,
                   created_directory_name, x, errors, hostCwd, procs, listeners,
                   stdin, term, keysLeft, effects, results>>

\* the `else` branch: the block is a file's content; create_file may fail
FileBlock ==
    /\ AtBlock
    /\ ~IsCommandBlock(step_title, delete_first_line(code_snippet))
    /\ LET content == delete_first_line(code_snippet).content
           filename == extract_filename(step_title)
           full_path == PathJoin(current_directory, filename)
       IN  IF filename # ""
           THEN \E written \in BOOLEAN :
                    /\ effects' = Append(effects, Effect("write", full_path, content,
                                         current_directory, current_directory, hostCwd, written))
                    /\ errors' = IF written THEN errors
                                 ELSE errors \o WriteErrorEntry(i, filename)
           ELSE UNCHANGED <<effects, errors>>
    /\ classified' = Append(classified, Classified("file", delete_first_line(code_snippet)))
    /\ j' = j + 1
    /\ UNCHANGED <<text, seed, begun, pc, step_titles, step_details, code_snippets, i, commands, k,
                   current_directory, created_directory_name, x, hostCwd, procs,
                   listeners, stdin, term, keysLeft, results>>

\* the commands of the block are exhausted: the next block
EndBlock ==
    /\ pc = "cmd"
    /\ k > Len(commands)
    /\ pc' = "block"
    /\ j' = j + 1
    /\ UNCHANGED <<text, seed, begun, step_titles, step_details, code_snippets, i, commands, k,
                   current_directory, created_directory_name, x, errors, hostCwd,
                   procs, listeners, stdin, term, keysLeft, effects,
                   classified, results>>

AtCommand == pc = "cmd" /\ k <= Len(commands)

\* `cd `: the tracked directory is reassigned, then os.chdir; a directory
\* that cannot be entered makes os.chdir raise, and nothing in run_commands
\* or final_command catches it
ChangeDirectory ==
    /\ AtCommand
    /\ IsChangeDirectory(command)
    /\ current_directory' = ChangedDirectory(current_directory, command)
    /\ \E entered \in BOOLEAN :
           /\ effects' = Append(effects, Effect("cd", command, "", current_directory,
                                current_directory', IF entered THEN Chdir(current_directory', hostCwd) ELSE hostCwd,
                                entered))
           /\ IF entered
              THEN /\ hostCwd' = Chdir(current_directory', hostCwd)
                   /\ created_directory_name' = NameAfter(created_directory_name, x, commands)
                   /\ x' = FlagAfter(created_directory_name, x)
                   /\ k' = k + 1
                   /\ pc' = pc
              ELSE /\ pc' = "aborted"
                   /\ UNCHANGED <<hostCwd, created_directory_name, x, k>>
    /\ UNCHANGED <<text, seed, begun, step_titles, step_details, code_snippets, i, j, commands, errors, procs,
                   listeners, stdin, term, keysLeft, classified, results>>

\* a redundant mkdir or cd of the project root: `continue`
SkipCommand ==
    /\ AtCommand
    /\ ~IsChangeDirectory(command)
    /\ IsSkipped(command, created_directory_name)
    /\ k' = k + 1
    /\ UNCHANGED <<text, seed, begun, pc, step_titles, step_details, code_snippets, i, j, commands,
                   current_directory, created_directory_name, x, errors, hostCwd,
                   procs, listeners, stdin, term, keysLeft, effects,
                   classified, results>>

Dispatched == AtCommand /\ ~IsChangeDirectory(command) /\ ~IsSkipped(command, created_directory_name)

\* what follows a return of run_command with `error`
AfterRunCommand(error) ==
    /\ errors' = WithError(errors, i, error)
    /\ created_directory_name' = NameAfter(created_directory_name, x, commands)
    /\ x' = FlagAfter(created_directory_name, x)
    /\ k' = k + 1
    /\ pc' = "cmd"

\* run_command: the operator declines a "python" command: (None, None)
AskDeclined ==
    /\ Dispatched
    /\ NeedsPermission(command)
    /\ \E response \in Answers :
           /\ ~ask_permission(response)
           /\ results' = Append(results, Result(command, 0, "declined", "", "", response))
    /\ AfterRunCommand("")
    /\ UNCHANGED <<text, seed, begun, step_titles, step_details, code_snippets, i, j, commands,
                   current_directory, hostCwd, procs, listeners, stdin, term,
                   keysLeft, effects, classified>>

\* run_command: subprocess.Popen raises: (str(e), None)
SpawnRaises ==
    /\ Dispatched
    /\ AfterRunCommand(ExceptionText)
    /\ results' = Append(results, Result(command, 0, "raised", "", ExceptionText, ""))
    /\ UNCHANGED <<text, seed, begun, step_titles, step_details, code_snippets, i, j, commands,
                   current_directory, hostCwd, procs, listeners, stdin, term,
                   keysLeft, effects, classified>>

\* run_command: the child is spawned in the host's working directory and
\* its listener thread is started
Spawn ==
    /\ Dispatched
    /\ procs' = Append(procs, [alive |-> TRUE, stderr |-> "", signalled |-> FALSE])
    /\ listeners' = Append(listeners, [pc |-> "poll", old |-> "", key |-> NoKey])
    /\ \E response \in (IF NeedsPermission(command) THEN Answers ELSE {""}) :
           /\ NeedsPermission(command) => ask_permission(response)
           /\ effects' = Append(effects, Effect("spawn", command, response,
                                current_directory, current_directory, hostCwd, TRUE))
    /\ pc' = "stream"
    /\ UNCHANGED <<text, seed, begun, runnerVars, hostCwd, stdin, term, keysLeft, classified,
                   results>>

\* run_command: reading the child's output raises (text=True decodes it
\* strictly): the except clause returns (str(e), None) at once, whether or
\* not the child has exited
StreamRaises ==
    /\ pc = "stream"
    /\ AfterRunCommand(ExceptionText)
    /\ results' = Append(results, Result(command, cur, "raised", "", ExceptionText, ""))
    /\ UNCHANGED <<text, seed, begun, step_titles, step_details, code_snippets, i, j, commands,
                   current_directory, hostCwd, procs, listeners, stdin, term,
                   keysLeft, effects, classified>>

\* run_command: the output loop, communicate() and wait() end once the
\* child has exited: (stderr, output)
CommandReturns ==
    /\ pc = "stream"
    /\ ~procs[cur].alive
    /\ AfterRunCommand(CapturedStderr(procs[cur]))
    /\ results' = Append(results, Result(command, cur, "returned", procs[cur].stderr,
                                         CapturedStderr(procs[cur]), ""))
    /\ UNCHANGED <<text, seed, begun, step_titles, step_details, code_snippets, i, j, commands,
                   current_directory, hostCwd, procs, listeners, stdin, term,
                   keysLeft, effects, classified>>

\* ------------------------------------------------------------------------
\* The child processes
\* ------------------------------------------------------------------------

\* the child exits, by itself or on the termination signal, having written
\* `written` to its standard error
ChildExits(p, written) ==
    /\ procs[p].alive
    /\ procs' = [procs EXCEPT ![p].alive = FALSE, ![p].stderr = written]
    /\ UNCHANGED <<text, seed, begun, pc, runnerVars, hostCwd, listeners, stdin, term,
                   keysLeft, effects, classified, results>>

\* ------------------------------------------------------------------------
\* The listener threads: check_for_stop and get_key
\* ------------------------------------------------------------------------

\* `while result.poll() is None`
ListenerPolls(l) ==
    /\ listeners[l].pc = "poll"
    /\ listeners' = [listeners EXCEPT ![l].pc = IF procs[l].alive THEN "getattr" ELSE "done"]
    /\ UNCHANGED <<text, seed, begun, pc, runnerVars, hostCwd, procs, stdin, term, keysLeft,
                   effects, classified, results>>

\* old_settings = termios.tcgetattr(fd)
ListenerSaves(l) ==
    /\ listeners[l].pc = "getattr"
    /\ listeners' = [listeners EXCEPT ![l].pc = "setraw", ![l].old = term]
    /\ UNCHANGED <<text, seed, begun, pc, runnerVars, hostCwd, procs, stdin, term, keysLeft,
                   effects, classified, results>>

\* tty.setraw(fd)
ListenerSetsRaw(l) ==
    /\ listeners[l].pc = "setraw"
    /\ term' = "raw"
    /\ listeners' = [listeners EXCEPT ![l].pc = "read"]
    /\ UNCHANGED <<text, seed, begun, pc, runnerVars, hostCwd, procs, stdin, keysLeft,
                   effects, classified, results>>

\* key = sys.stdin.read(1): blocks until a key is there
ListenerReads(l) ==
    /\ listeners[l].pc = "read"
    /\ stdin # << >>
    /\ listeners' = [listeners EXCEPT ![l].pc = "restore", ![l].key = Head(stdin)]
    /\ stdin' = Tail(stdin)
    /\ UNCHANGED <<text, seed, begun, pc, runnerVars, hostCwd, procs, term, keysLeft,
                   effects, classified, results>>

\* finally: termios.tcsetattr(fd, TCSADRAIN, old_settings); get_key returns
\* and old_settings goes out of scope
ListenerRestores(l) ==
    /\ listeners[l].pc = "restore"
    /\ term' = listeners[l].old
    /\ listeners' = [listeners EXCEPT ![l].pc = "decide", ![l].old = ""]
    /\ UNCHANGED <<text, seed, begun, pc, runnerVars, hostCwd, procs, stdin, keysLeft,
                   effects, classified, results>>

\* `if key.lower() == 'n': result.terminate(); break`: the signal goes to
\* the listener's own child, and only while that child has not exited;
\* any other key leads back to the loop test
ListenerDecides(l) ==
    /\ listeners[l].pc = "decide"
    /\ IF Lower(listeners[l].key.ch) = "n"
       THEN /\ listeners' = [listeners EXCEPT ![l].pc = "done", ![l].key = NoKey]
            /\ procs' = [procs EXCEPT ![l].signalled = procs[l].signalled \/ procs[l].alive]
       ELSE /\ listeners' = [listeners EXCEPT ![l].pc = "poll", ![l].key = NoKey]
            /\ UNCHANGED procs
    /\ UNCHANGED <<text, seed, begun, pc, runnerVars, hostCwd, stdin, term, keysLeft,
                   effects, classified, results>>

\* ------------------------------------------------------------------------
\* The operator
\* ------------------------------------------------------------------------

\* the child of the command the runner is executing, while it is alive
RunningChild == IF pc = "stream" /\ procs[cur].alive THEN cur ELSE 0

\* a key is typed while some listener thread exists to read it; the key
\* remembers which child was running when it was typed
PressKey(ch) ==
    /\ keysLeft > 0
    /\ \E l \in DOMAIN listeners : listeners[l].pc # "done"
    /\ stdin' = Append(stdin, [ch |-> ch, during |-> RunningChild])
    /\ keysLeft' = keysLeft - 1
    /\ UNCHANGED <<text, seed, begun, pc, runnerVars, hostCwd, procs, listeners, term, effects,
                   classified, results>>

\* ------------------------------------------------------------------------
\* Specification
\* ------------------------------------------------------------------------

Next ==
    \/ FinalCommand
    \/ RunCommandsSeeded
    \/ NextStep
    \/ ReturnErrors
    \/ CommandBlock
    \/ FileBlock
    \/ EndBlock
    \/ ChangeDirectory
    \/ SkipCommand
    \/ AskDeclined
    \/ SpawnRaises
    \/ Spawn
    \/ StreamRaises
    \/ CommandReturns
    \/ \E p \in DOMAIN procs, written \in {"", StderrText} : ChildExits(p, written)
    \/ \E l \in DOMAIN listeners : ListenerPolls(l)
    \/ \E l \in DOMAIN listeners : ListenerSaves(l)
    \/ \E l \in DOMAIN listeners : ListenerSetsRaw(l)
    \/ \E l \in DOMAIN listeners : ListenerReads(l)
    \/ \E l \in DOMAIN listeners : ListenerRestores(l)
    \/ \E l \in DOMAIN listeners : ListenerDecides(l)
    \/ \E ch \in Keys : PressKey(ch)

Spec == Init /\ [][Next]_vars

\* ------------------------------------------------------------------------
\* Scheduling: what the runner thread and the children can be relied on for
\* ------------------------------------------------------------------------

\* how many keys the operator types in the runs that are followed to
\* their end
LiveKeys == 1

\* those runs: the runs of Init, the attended ones with LiveKeys keys
LiveInit ==
    /\ \/ text \in RunDocs /\ keysLeft = 0 /\ seed = << >>
       \/ text \in KeyDocs /\ keysLeft = LiveKeys /\ seed = << >>
       \/ text \in RunDocs /\ keysLeft = 0 /\ seed \in Seeds
    /\ Fresh

\* final_command or a seeded run_commands starts; told by the runner's
\* position alone, which no other step moves from "init"
BeginsRun == pc = "init" /\ pc' = "block"

\* the inner loop takes block j of step i, as commands or as a file; told
\* by the runner's position alone: CommandBlock goes on to the commands,
\* FileBlock to the next block, and one of the two can always be taken
TakesBlock == AtBlock /\ ((pc' = "cmd" /\ j' = j) \/ (pc' = "block" /\ j' = j + 1))

\* the command loop takes command k: it goes on to the next command (a
\* directory entered, a skipped or declined command, a spawn that raised)
\* or waits for the child it spawned; told by the runner's position alone.
\* At a confirmation prompt it is the operator's answer that lets it go on
TakesCommand == AtCommand /\ ((pc' = "cmd" /\ k' = k + 1) \/ (pc' = "stream" /\ k' = k))

\* run_command returns once the child it waits for has exited
LeavesRunCommand == pc = "stream" /\ ~procs[cur].alive /\ pc' = "cmd" /\ k' = k + 1

\* the steps of the two loops that take no block and no command
LoopStep == NextStep \/ ReturnErrors \/ EndBlock

\* a child exits
SomeChildExits == \E p \in DOMAIN procs, written \in {"", StderrText} : ChildExits(p, written)

\* the runner thread is scheduled and every child exits in the end; nothing
\* is assumed of the listener threads or of the operator's keys
LiveSpec ==
    /\ LiveInit
    /\ [][Next]_vars
    /\ WF_pc(BeginsRun)
    /\ WF_vars(LoopStep)
    /\ WF_<<pc, j>>(TakesBlock)
    /\ WF_<<pc, k>>(TakesCommand)
    /\ WF_<<pc, k>>(LeavesRunCommand)
    /\ WF_vars(SomeChildExits)

\* ------------------------------------------------------------------------
\* The main loop: one document after the other, in the same host process
\* ------------------------------------------------------------------------

\* main's `while True`: final_command has returned, or has raised into the
\* handler of the loop, and the next response is handed to final_command.
\* The children of the finished run have exited and their listener threads
\* have ended; the locals of the finished run are gone.
NextDocument ==
    /\ pc \in {"done", "aborted"}
    /\ seed = << >>
    /\ Len(begun) < MaxRuns
    /\ keysLeft = 0
    /\ stdin = << >>
    /\ \A p \in DOMAIN procs : ~procs[p].alive
    /\ \A l \in DOMAIN listeners : listeners[l].pc = "done"
    /\ text' \in RunDocs
    /\ pc' = "init"
    /\ step_titles' = << >>
    /\ step_details' = << >>
    /\ code_snippets' = << >>
    /\ i' = 0
    /\ j' = 1
    /\ commands' = << >>
    /\ k' = 1
    /\ current_directory' = ""
    /\ created_directory_name' = << >>
    /\ x' = 0
    /\ errors' = ""
    /\ procs' = << >>
    /\ listeners' = << >>
    /\ effects' = << >>
    /\ classified' = << >>
    /\ results' = << >>
    /\ UNCHANGED <<seed, begun, hostCwd, stdin, term, keysLeft>>

MainNext == Next \/ NextDocument

MainSpec == Init /\ [][MainNext]_vars

\* ------------------------------------------------------------------------
\* Properties
\* ------------------------------------------------------------------------

Last(seq) == seq[Len(seq)]

\* a line that is a step marker: **Step <digits>: <title>**
IsMarkerLine(line) ==
    /\ MarkerHead(line, 1, " ") # 0
    /\ Len(line) >= MarkerHead(line, 1, " ") + 2
    /\ StartsAt(line, Len(line) - 1, "**")

\* the marker lines of a document, in order
MarkerLines(doc) == SelectSeq(splitlines(doc), IsMarkerLine)

\* the language-tag line of a block: its text up to the first line break
TagLine(snippet) ==
    LET brk == {q \in 1..Len(snippet) : At(snippet, q) = NL}
    IN  IF brk = {} THEN snippet ELSE SubSeq(snippet, 1, MinOf(brk) - 1)

\* C1: a failure while processing one step never aborts the plan: whatever
\* fails (a command's stderr, a command that raises, a file write, a cd to
\* a directory that cannot be entered), run_commands goes on to the later
\* commands and steps and returns its error log; it never ends by an
\* exception.
C1_FailureNeverAbortsPlan == pc # "aborted"

\* C2: once a document is parsed, there are as many steps as marker lines,
\* and the body of step n does not contain the title of step n + 1.
C2_OneStepPerMarker ==
    pc # "init" =>
        /\ Len(step_titles) = Len(MarkerLines(text))
        /\ \A n \in 1..Len(step_details) :
               n + 1 <= Len(MarkerLines(text)) =>
                   ~Contains(step_details[n], MarkerLines(text)[n + 1])

\* C3: a block is treated as a command block if and only if the lowercase
\* step title or the lowercase language-tag line of the block contains
\* "bash", also when the tag line is empty.
C3_CommandBlockIffBash ==
    \A n \in DOMAIN classified :
        (classified[n].kind = "command") <=>
            \/ Contains(Lower(classified[n].title), "bash")
            \/ Contains(Lower(TagLine(classified[n].snippet)), "bash")

\* the entry of the error log for a command of the step at 1-based
\* position `step`
EntryFor(step, message) == "Error in step " \o IntToStr(step) \o ": " \o message \o NL

\* the commands of the step at 1-based position `step`
CommandsOfStep(step) ==
    UNION {{extract_bash_commands(code_snippets[step][b])[m] :
                m \in 1..Len(extract_bash_commands(code_snippets[step][b]))} :
           b \in 1..Len(code_snippets[step])}

\* C4 as stated: whenever run_command returns for a dispatched command, the
\* error log grows by exactly "Error in step <i>: <stderr>\n" when stderr
\* was captured and is not empty, and by nothing otherwise.
C4_EntryIffStderr ==
    [][Len(results') = Len(results) + 1 =>
           LET r == Last(results')
           IN  errors' = IF r.captured # "" THEN errors \o EntryFor(r.step, r.captured)
                         ELSE errors]_vars

\* C4 amended: a command that run_command runs to its end adds exactly the
\* entry "Error in step <i>: <stderr>\n" when its stderr is not empty and
\* nothing when it is empty, i being the 1-based position of its step; a
\* command for which run_command raises adds one entry that carries the
\* exception text instead; a declined command adds nothing.
C4_EntryPerReturn ==
    [][Len(results') = Len(results) + 1 =>
           LET r == Last(results')
           IN  /\ r.step \in 1..Len(step_titles)
               /\ r.command \in CommandsOfStep(r.step)
               /\ r.how = "returned" =>
                      errors' = IF r.captured # "" THEN errors \o EntryFor(r.step, r.captured)
                                ELSE errors
               /\ r.how = "raised" => errors' = errors \o EntryFor(r.step, ExceptionText)
               /\ r.how = "declined" => errors' = errors]_vars

\* a command of step 2 ran to its end with stderr, and its entry is logged
C4_Witness ==
    \E n \in DOMAIN results :
        /\ results[n].how = "returned"
        /\ results[n].captured = StderrText
        /\ results[n].step = 2
        /\ Contains(errors, "Error in step 2: " \o StderrText \o NL)

CdEffects == SelectSeq(effects, LAMBDA e : e.kind = "cd")

\* C5: a command that starts with "cd " sets the tracked directory to
\* join(previous tracked directory, trimmed text after "cd ") and is never
\* handed to run_command: no call and no child process carries it.
C5_CdIsLocal ==
    /\ \A n \in DOMAIN effects :
           /\ effects[n].kind = "cd" =>
                  effects[n].after = PathJoin(effects[n].before,
                                              Strip(SubSeq(effects[n].text, 4, Len(effects[n].text))))
           /\ effects[n].kind = "spawn" => ~StartsAt(effects[n].text, 1, "cd ")
    /\ \A n \in DOMAIN results : ~StartsAt(results[n].command, 1, "cd ")
    /\ \A n \in DOMAIN CdEffects :
           CdEffects[n].before = IF n = 1 THEN StartDir ELSE CdEffects[n - 1].after
    /\ pc # "init" =>
           current_directory = IF CdEffects = << >> THEN StartDir ELSE Last(CdEffects).after
    /\ pc \in {"cmd", "stream"} =>
           \A m \in 1..(k - 1) :
               StartsAt(commands[m], 1, "cd ") =>
                   \E n \in DOMAIN effects :
                       /\ effects[n].kind = "cd"
                       /\ effects[n].text = commands[m]
                       /\ effects[n].step = i + 1
                       /\ effects[n].block = j
                       /\ effects[n].index = m

\* "cd demo" was handled: the tracked directory is <start>/demo and no
\* process was spawned for it
C5_Witness ==
    /\ current_directory = StartDir \o "/demo"
    /\ \E n \in DOMAIN effects :
           effects[n].kind = "cd" /\ effects[n].text = "cd demo" /\ effects[n].ok
    /\ \E n \in DOMAIN effects : effects[n].kind = "spawn"

\* C6: whenever a child is spawned or a file is written, the host's working
\* directory equals the tracked directory; every cd that succeeds has moved
\* the host before the runner goes on.
C6_HostFollowsTracked ==
    /\ \A n \in DOMAIN effects :
           /\ effects[n].kind \in {"spawn", "write"} => effects[n].cwd = effects[n].after
           /\ (effects[n].kind = "cd" /\ effects[n].ok) => effects[n].cwd = effects[n].after
    /\ pc \in {"block", "cmd", "stream"} => hostCwd = current_directory

\* a child was spawned after a cd, in the directory the cd led to
C6_Witness ==
    \E n \in DOMAIN effects, m \in DOMAIN effects :
        /\ n < m
        /\ effects[n].kind = "cd"
        /\ effects[m].kind = "spawn"
        /\ effects[m].cwd = StartDir \o "/demo"

\* every command handed to run_command so far ran to its end: nothing was
\* declined and nothing raised
AllRanToEnd == \A n \in DOMAIN results : results[n].how = "returned"

\* C7: an `n` typed while the child of the running command is alive is read
\* by that child's listener, which sends the termination signal to it, also
\* when every earlier command of the run finished normally.
C7_CancelKeyReachesRunningChild ==
    AllRanToEnd =>
        \A l \in DOMAIN listeners :
            (Lower(listeners[l].key.ch) = "n" /\ listeners[l].key.during # 0) =>
                l = listeners[l].key.during

\* C8: once the next command is spawned, no listener thread of an earlier
\* command is still inside get_key or about to act on a key: it has
\* terminated, or stands at the loop test that ends it.
C8_NoListenerOutlivesCommand ==
    AllRanToEnd =>
        \A l \in DOMAIN listeners : l < cur => listeners[l].pc \in {"poll", "done"}

\* C9 as stated: when run_command returns for a command that the operator
\* cancelled, it returns the child's stderr, an entry is logged if and only
\* if that stderr is not empty, and the runner goes on to the next command.
C9_CancelReturnsStderr ==
    [][(Len(results') = Len(results) + 1 /\ Last(results').cancelled) =>
           LET r == Last(results')
           IN  /\ r.error = procs[r.proc].stderr
               /\ errors' = IF procs[r.proc].stderr # ""
                            THEN errors \o EntryFor(r.step, procs[r.proc].stderr)
                            ELSE errors
               /\ pc' = "cmd"
               /\ k' = k + 1]_vars

\* C9 amended: when run_command returns for a command that the operator
\* cancelled, it returns the child's stderr, or the exception text when
\* reading the child's output raised; an entry is logged if and only if the
\* returned text is not empty, and the runner goes on to the next command.
C9_CancelNeverAborts ==
    [][(Len(results') = Len(results) + 1 /\ Last(results').cancelled) =>
           LET r == Last(results')
           IN  /\ r.error = IF r.how = "raised" THEN ExceptionText ELSE procs[r.proc].stderr
               /\ errors' = IF r.error # "" THEN errors \o EntryFor(r.step, r.error)
                            ELSE errors
               /\ pc' = "cmd"
               /\ k' = k + 1]_vars

\* a cancelled command returned its stderr, the entry is logged and the
\* next command has been spawned
C9_Witness ==
    \E n \in DOMAIN results :
        /\ results[n].cancelled
        /\ results[n].how = "returned"
        /\ results[n].captured = StderrText
        /\ Contains(errors, EntryFor(results[n].step, StderrText))
        /\ cur > results[n].proc

\* C10: at most one child process is alive at any time.
C10_OneChildAtATime == Cardinality({p \in DOMAIN procs : procs[p].alive}) <= 1

\* the item of the document at the position an effect is recorded with
IsItemOfDocument(e) ==
    /\ e.step \in 1..Len(code_snippets)
    /\ e.block \in 1..Len(code_snippets[e.step])
    /\ IF e.kind = "write"
       THEN e.data = delete_first_line(code_snippets[e.step][e.block]).content
       ELSE /\ e.index \in 1..Len(extract_bash_commands(code_snippets[e.step][e.block]))
            /\ e.text = extract_bash_commands(code_snippets[e.step][e.block])[e.index]

\* the item of effect a stands before the item of effect b in the document
ItemBefore(a, b) ==
    \/ a.step < b.step
    \/ a.step = b.step /\ a.block < b.block
    \/ a.step = b.step /\ a.block = b.block /\ a.kind # "write" /\ b.kind # "write"
       /\ a.index < b.index

C12_PythonNeedsConfirmation ==
    [][/\ (Len(effects') > Len(effects) /\ Last(effects').kind = "spawn"
               /\ Contains(Last(effects').text, "python")) =>
              Lower(Strip(Last(effects').data)) = "y"
       /\ (Len(results') > Len(results) /\ Last(results').how = "declined") =>
              /\ Contains(Last(results').command, "python")
              /\ Lower(Strip(Last(results').answer)) # "y"
              /\ procs' = procs
              /\ listeners' = listeners
              /\ effects' = effects
              /\ errors' = errors]_vars

\* the operator typed "yes", which is not y: the python command was
\* declined, and nothing was spawned or logged
C12_Witness ==
    \E n \in DOMAIN results :
        /\ results[n].how = "declined"
        /\ results[n].command = "python app.py"
        /\ results[n].answer = "yes"
        /\ procs = << >>
        /\ listeners = << >>
        /\ errors = ""
        /\ pc = "done"

\* the document of one step titled "bash commands" whose bash block holds
\* the lines `mkdir demo` and `cd demo`
MkdirCdDocument == PlanText(<<RootStep>>, 1)

\* the one dispatched command ran to its end without writing to stderr
MkdirSucceeded ==
    /\ Len(results) = 1
    /\ results[1].command = "mkdir demo"
    /\ results[1].how = "returned"
    /\ results[1].captured = ""

\* C13: for the document whose one step, titled "bash commands", holds the
\* lines `mkdir demo` and `cd demo`, with no root name known at the start
\* and a succeeding mkdir, run_commands returns having spawned exactly one
\* process, for `mkdir demo`; the tracked directory is <start>/demo, the
\* root name is "demo" and the error log is empty.
C13_MkdirThenCd ==
    (text = MkdirCdDocument /\ pc = "done" /\ MkdirSucceeded) =>
        /\ Len(procs) = 1
        /\ SelectSeq(effects, LAMBDA e : e.kind = "spawn") # << >>
        /\ \A n \in DOMAIN effects : effects[n].kind = "spawn" => effects[n].text = "mkdir demo"
        /\ current_directory = StartDir \o "/demo"
        /\ hostCwd = StartDir \o "/demo"
        /\ created_directory_name = <<"demo">>
        /\ errors = ""

\* run_commands returned for that document after a succeeding mkdir
C13_Witness ==
    /\ text = MkdirCdDocument
    /\ pc = "done"
    /\ MkdirSucceeded
    /\ Len(effects) = 2
    /\ effects[2].kind = "cd"

\* the text of a block after its first line break, without the line break
\* that ends it
RestAfterFirstLine(snippet) ==
    LET brk == {q \in 1..Len(snippet) : At(snippet, q) = NL}
        rest == IF brk = {} THEN "" ELSE SubSeq(snippet, MinOf(brk) + 1, Len(snippet))
    IN  IF rest # "" /\ At(rest, Len(rest)) = NL THEN SubSeq(rest, 1, Len(rest) - 1) ELSE rest

\* C14: a file block is written at join(tracked directory, filename of the
\* step title) and the content written is the block's text without its
\* first line; the block "python\nprint('hi')\n" of a step titled
\* "write hello.py" writes <tracked directory>/hello.py holding print('hi').
C14_FileBlockContent ==
    [][(Len(effects') > Len(effects) /\ Last(effects').kind = "write") =>
           LET e == Last(effects')
               title == step_titles[e.step]
               snippet == code_snippets[e.step][e.block]
           IN  /\ extract_filename(title) # ""
               /\ e.text = PathJoin(current_directory, extract_filename(title))
               /\ e.data = RestAfterFirstLine(snippet)
               /\ (Contains(title, "write hello.py") /\ snippet = "python\nprint('hi')\n") =>
                      /\ e.text = current_directory \o "/hello.py"
                      /\ e.data = "print('hi')"]_vars

\* hello.py was written in the directory the first step changed to
C14_Witness ==
    \E n \in DOMAIN effects :
        /\ effects[n].kind = "write"
        /\ effects[n].ok
        /\ effects[n].text = StartDir \o "/demo/hello.py"
        /\ effects[n].data = "print('hi')"

\* the document holds the head of a step marker, **Step <digit>, somewhere
HasMarkerHead(doc) ==
    \E p \in 1..Len(doc) : StartsAt(doc, p, "**Step ") /\ IsDigit(At(doc, p + 7))

\* C15: for a document without any step marker the parser returns no step,
\* and final_command returns an empty error log having spawned no process,
\* changed no directory and written no file.
C15_NoMarkerNoEffect ==
    (pc # "init" /\ ~HasMarkerHead(text)) =>
        /\ step_titles = << >>
        /\ step_details = << >>
        /\ code_snippets = << >>
        /\ pc \in {"block", "done"}
        /\ errors = ""
        /\ effects = << >>
        /\ results = << >>
        /\ procs = << >>
        /\ hostCwd = StartDir
        /\ current_directory = StartDir

\* final_command returned for a document of prose and of a bold line that
\* is no marker
C15_Witness ==
    /\ pc = "done"
    /\ ~HasMarkerHead(text)
    /\ Contains(text, "**Step one: title**")
    /\ Contains(text, "some text")
    /\ errors = ""

\* the block holds no line that is the bash marker
HasNoBashLine(snippet) ==
    \A n \in 1..Len(splitlines(snippet)) : Strip(splitlines(snippet)[n]) # "bash"

\* C16: for a command block that holds no `bash` marker line (a block tagged
\* sh in a step whose title contains "bash"), the commands run_commands
\* iterates over are the non-blank lines that follow the language-tag
\* line, one command per line.
C16_FallbackToEveryLine ==
    (pc = "cmd" /\ HasNoBashLine(code_snippet)) =>
        commands = StrippedLines(Tail(splitlines(code_snippet)))

RECURSIVE FilenameTokensFrom(_, _)
\* the path-like or name.ext-like tokens of a title from position pos on,
\* from left to right
FilenameTokensFrom(s, pos) ==
    LET ps == {p \in pos..Len(s) : FilenameMatchAt(s, p)}
    IN  IF ps = {} THEN << >>
        ELSE LET p == MinOf(ps)
                 e == IF PathAltEnd(s, p) # 0 THEN PathAltEnd(s, p) ELSE NameAltEnd(s, p)
             IN  <<SubSeq(s, p, e)>> \o FilenameTokensFrom(s, e + 1)

\* C17: the file of a file block is named by the last path-like or
\* name.ext-like token of the step title, also when the title holds two or
\* more such tokens.
C17_LastFilenameToken ==
    \A n \in DOMAIN effects :
        effects[n].kind = "write" =>
            effects[n].text = PathJoin(effects[n].before,
                                       Last(FilenameTokensFrom(step_titles[effects[n].step], 1)))

\* C18: when no root name is known at the start of the run, the root name
\* that run_commands infers is the text of the first
\* command handed to run_command, with the literal mkdir removed and
\* trimmed; it is never taken from a `cd ` command that was handled
\* locally or from a command that was not handed over.
C18_RootNameFromFirstDispatched ==
    (seed = << >> /\ created_directory_name # << >>) =>
        /\ results # << >>
        /\ created_directory_name[1] = Strip(Replace(results[1].command, "mkdir"))

\* C20: within one run of run_commands the root name is set at most once:
\* the run starts with the caller's seed, a name that is known is never
\* changed by a later command, and the name returned for a seeded run is
\* the seed.
C20_RootNameSetOnce ==
    [][/\ (pc = "init" /\ pc' = "block") => created_directory_name' = seed
       /\ (pc # "init" /\ created_directory_name # << >>) =>
              created_directory_name' = created_directory_name
       /\ (pc' = "done" /\ seed # << >>) => created_directory_name' = seed]_vars

\* a run seeded with "demo" returned that name after it had handed a
\* command to run_command
C20_Witness ==
    /\ pc = "done"
    /\ seed = <<"demo">>
    /\ created_directory_name = <<"demo">>
    /\ results # << >>
    /\ x = 0

\* C19: every run of the plan runner over a document starts with the
\* tracked directory equal to the directory in which the host process
\* started, whatever `cd` an earlier document performed.
C19_EveryRunStartsInStartDir ==
    \A n \in DOMAIN begun : begun[n] = StartDir

\* the runner takes the command it stands at, one that does not start with
\* "cd ", in this step
TakesOtherCommand ==
    /\ pc = "cmd"
    /\ k <= Len(commands)
    /\ ~StartsAt(commands[k], 1, "cd ")
    /\ (k' # k \/ pc' # pc)

\* C21: a command that does not start with "cd " is skipped, with nothing
\* spawned, nothing logged and the tracked directory and root name left as
\* they were, exactly when the root name is known, the command contains
\* that name and it contains "mkdir" or "cd"; every other such command is
\* handed to run_command.
C21_SkipRule ==
    [][TakesOtherCommand =>
           IF /\ created_directory_name # << >>
              /\ Contains(commands[k], created_directory_name[1])
              /\ (Contains(commands[k], "mkdir") \/ Contains(commands[k], "cd"))
           THEN /\ k' = k + 1
                /\ pc' = "cmd"
                /\ procs' = procs
                /\ listeners' = listeners
                /\ results' = results
                /\ effects' = effects
                /\ errors' = errors
                /\ current_directory' = current_directory
                /\ hostCwd' = hostCwd
                /\ created_directory_name' = created_directory_name
           ELSE \/ /\ Len(results') = Len(results) + 1
                   /\ Last(results').command = commands[k]
                \/ /\ Len(procs') = Len(procs) + 1
                   /\ Len(effects') = Len(effects) + 1
                   /\ Last(effects').kind = "spawn"
                   /\ Last(effects').text = commands[k]]_vars

\* with the root name "demo" known, `ls && cd demo` was skipped and
\* `mkdir lib` was spawned
C21_Witness ==
    /\ created_directory_name = <<"demo">>
    /\ pc = "stream"
    /\ commands = <<"ls && cd demo", "mkdir lib">>
    /\ k = 2
    /\ Last(effects).kind = "spawn"
    /\ Last(effects).text = "mkdir lib"
    /\ \A n \in DOMAIN effects : effects[n].text # "ls && cd demo"
    /\ \A n \in DOMAIN results : results[n].command # "ls && cd demo"

\* the runner takes the block it stands at as a file block in this step
TakesFileBlock == pc = "block" /\ pc' = "block" /\ i' = i /\ j' = j + 1

\* C22: a file block whose step title holds no filename is dropped: nothing
\* is written or logged and the tracked directory and the root name stay
\* as they were; a file block whose write fails adds exactly one entry
\* tagged with the 1-based index of its step; in both cases the runner goes
\* on with the next block.
C22_DroppedAndFailedFileBlocks ==
    [][TakesFileBlock =>
           /\ current_directory' = current_directory
           /\ hostCwd' = hostCwd
           /\ created_directory_name' = created_directory_name
           /\ procs' = procs
           /\ IF FilenameTokensFrom(step_titles[i + 1], 1) = << >>
              THEN effects' = effects /\ errors' = errors
              ELSE /\ Len(effects') = Len(effects) + 1
                   /\ Last(effects').kind = "write"
                   /\ Last(effects').step = i + 1
                   /\ errors' = IF Last(effects').ok THEN errors
                                ELSE errors \o EntryFor(i + 1, "Failed to create file "
                                         \o FilenameTokensFrom(step_titles[i + 1], 1)[1])]_vars

\* the write of step 1 failed and was logged, the block of step 2, whose
\* title holds no filename, was dropped, and run_commands returned
C22_Witness ==
    /\ pc = "done"
    /\ Len(classified) = 2
    /\ classified[2].kind = "file"
    /\ Contains(classified[2].title, "notes")
    /\ Len(effects) = 1
    /\ effects[1].kind = "write" /\ ~effects[1].ok
    /\ errors = "Error in step 1: Failed to create file hello.py" \o NL

\* listener l is inside get_key: between its tcgetattr and its tcsetattr
InGetKey(l) == listeners[l].pc \in {"getattr", "setraw", "read", "restore"}

\* C23: once every listener thread started during the run has returned
\* from get_key, the terminal attributes are the line-buffered ones that
\* were in force before the run, whatever the interleaving of the
\* listeners, also when every command of the run ran to its end.
C23_TerminalRestored ==
    (AllRanToEnd /\ \A l \in DOMAIN listeners : ~InGetKey(l)) => term = "cooked"

\* run_commands has returned after it classified every block of every step
ReturnedAfterEveryBlock ==
    /\ pc = "done"
    /\ \A s \in DOMAIN code_snippets : \A b \in DOMAIN code_snippets[s] :
           \E n \in DOMAIN classified : classified[n].step = s /\ classified[n].block = b

====
